---- MODULE Spec2Model ----
(***************************************************************************)
(* A model of ocrmypdf/exec/tesseract.py: the memoized version probe, the  *)
(* capability gates, the diagnostic log classifier, the orientation        *)
(* detector and the two page generators with their recovery paths.         *)
(*                                                                         *)
(* Text is modelled as TLA+ strings, on which TLC evaluates Len, SubSeq,   *)
(* Tail and \o, so the substring tests of the source are computed on the   *)
(* characters and not on labels.                                           *)
(***************************************************************************)
EXTENDS Integers, Sequences, FiniteSets, TLC

VARIABLES
    \* ---- the installed engine (the environment of the process)
    engine,       \* the version the engine reports, "" if the query exits non-zero
    engineParams, \* the text `tesseract --print-parameters` prints
    \* ---- version(): the lru_cache and the threads calling it
    cache,        \* "" while the lru_cache of version() is empty, else the cached string
    tpc,          \* tpc[t]: "idle" | "running" (inside check_output) | "got" | "raised"
    tret,         \* tret[t]: the value the last completed call of thread t returned
    runs,         \* how many times the --version subprocess has been started
    calls,        \* how many calls of version() have been made
    \* ---- the logging collaborator, shared by every invoker
    log,          \* sequence of [level, msg] handed to log.*
    \* ---- one call of tesseract_log_output on its own
    llines,       \* the lines the engine printed
    lstdout,      \* the raw diagnostic text: the lines joined by line breaks
    lpage,        \* what page_number(input_file) gives
    lpc,          \* "ready" | "done"
    \* ---- one page invocation: get_orientation, generate_hocr or generate_pdf
    pc,           \* "idle" | "engine" | "timeout" | "failed" | "logged" |
                  \* "succeeded" | "returned" | "raised"
    op,           \* the function called
    inv,          \* its arguments: languages, engine_mode, pagesegmode,
                  \* tessconfig, text_only, page, image, input_file
    args,         \* args_tesseract, the command line handed to check_output
    outcome,      \* how check_output ended: "ok" | "timeout" | "fail"
    report,       \* the orientation report a successful engine prints
    eout,         \* the engine's captured output (stdout, or e.output)
    fs,           \* the files of the call: path -> content
    fsExit,       \* fs as the engine left it when check_output ended
    exc,          \* the exception that reached the caller, "" if none
    result        \* the OrientationConfidence returned

envVars == <<engine, engineParams>>
versionVars == <<cache, tpc, tret, runs, calls>>
logVars == <<llines, lstdout, lpage, lpc>>
pageVars == <<pc, op, inv, args, outcome, report, eout, fs, fsExit, exc, result>>
vars == <<engine, engineParams, cache, tpc, tret, runs, calls, log,
          llines, lstdout, lpage, lpc,
          pc, op, inv, args, outcome, report, eout, fs, fsExit, exc, result>>

\* ---- bounds of the model
NThreads == 2        \* threads calling version()
MaxCalls == 4        \* calls of version() made in one behaviour
MaxLines == 2        \* lines of diagnostic text given to tesseract_log_output
MaxOutLines == 2     \* lines of output of an engine that exits non-zero

Threads == 1..NThreads

(***************************************************************************)
(* Python str operations                                                   *)
(***************************************************************************)

\* str.startswith
StartsWith(s, p) == Len(s) >= Len(p) /\ SubSeq(s, 1, Len(p)) = p

\* the `in` operator on two strings
Contains(s, p) ==
    \E i \in 1..(Len(s) - Len(p) + 1) : SubSeq(s, i, i + Len(p) - 1) = p

LowerChar(c) ==
    CASE c = "A" -> "a" [] c = "B" -> "b" [] c = "C" -> "c" [] c = "D" -> "d"
      [] c = "E" -> "e" [] c = "F" -> "f" [] c = "G" -> "g" [] c = "H" -> "h"
      [] c = "I" -> "i" [] c = "J" -> "j" [] c = "K" -> "k" [] c = "L" -> "l"
      [] c = "M" -> "m" [] c = "N" -> "n" [] c = "O" -> "o" [] c = "P" -> "p"
      [] c = "Q" -> "q" [] c = "R" -> "r" [] c = "S" -> "s" [] c = "T" -> "t"
      [] c = "U" -> "u" [] c = "V" -> "v" [] c = "W" -> "w" [] c = "X" -> "x"
      [] c = "Y" -> "y" [] c = "Z" -> "z" [] OTHER -> c

\* str.lower
RECURSIVE Lower(_)
Lower(s) ==
    IF Len(s) = 0 THEN "" ELSE LowerChar(SubSeq(s, 1, 1)) \o Lower(Tail(s))

IsSpace(c) == c = " " \/ c = "\t"

\* str.strip
RECURSIVE LStrip(_)
LStrip(s) ==
    IF Len(s) > 0 /\ IsSpace(SubSeq(s, 1, 1)) THEN LStrip(Tail(s)) ELSE s

RECURSIVE RStrip(_)
RStrip(s) ==
    IF Len(s) > 0 /\ IsSpace(SubSeq(s, Len(s), Len(s)))
    THEN RStrip(SubSeq(s, 1, Len(s) - 1))
    ELSE s

Strip(s) == RStrip(LStrip(s))

\* index of the first occurrence of the one-character string c in s, 0 if none
FindChar(s, c) ==
    IF \E i \in 1..Len(s) : SubSeq(s, i, i) = c
    THEN CHOOSE i \in 1..Len(s) :
            /\ SubSeq(s, i, i) = c
            /\ \A j \in 1..(i - 1) : SubSeq(s, j, j) # c
    ELSE 0

\* str.splitlines: the pieces between line breaks; a final line break opens no
\* empty last line
RECURSIVE SplitLines(_)
SplitLines(s) ==
    IF Len(s) = 0 THEN << >>
    ELSE LET i == FindChar(s, "\n") IN
         IF i = 0 THEN <<s>>
         ELSE <<SubSeq(s, 1, i - 1)>> \o SplitLines(SubSeq(s, i + 1, Len(s)))

\* "\n".join(lines), how the engine's output text is put together
RECURSIVE JoinLines(_)
JoinLines(ls) ==
    IF Len(ls) = 0 THEN ""
    ELSE IF Len(ls) = 1 THEN ls[1]
    ELSE ls[1] \o "\n" \o JoinLines(Tail(ls))

DigitStr(d) ==
    CASE d = 0 -> "0" [] d = 1 -> "1" [] d = 2 -> "2" [] d = 3 -> "3"
      [] d = 4 -> "4" [] d = 5 -> "5" [] d = 6 -> "6" [] d = 7 -> "7"
      [] d = 8 -> "8" [] d = 9 -> "9"

\* str(n) for n >= 0
RECURSIVE NatStr(_)
NatStr(n) == IF n < 10 THEN DigitStr(n) ELSE NatStr(n \div 10) \o DigitStr(n % 10)

RECURSIVE PadLeft(_, _)
PadLeft(s, w) == IF Len(s) >= w THEN s ELSE PadLeft(" " \o s, w)

\* "{0:4d}: [tesseract] ".format(page_number(input_file))
LogPrefix(page) == PadLeft(NatStr(page), 4) \o ": [tesseract] "

(***************************************************************************)
(* tesseract_log_output                                                    *)
(***************************************************************************)

\* LogLine with the tests for 'error' and 'exception' made on the line as it
\* is, not on line.lower()
LogLine_case_sensitive(prefix, line) ==
    IF StartsWith(line, "Tesseract Open Source") THEN << >>
    ELSE IF StartsWith(line, "Warning in pixReadMem") THEN << >>
    ELSE IF Contains(line, "diacritics")
        THEN <<[level |-> "warning",
                msg |-> prefix \o "lots of diacritics - possibly poor OCR"]>>
    ELSE IF StartsWith(line, "OSD: Weak margin")
        THEN <<[level |-> "warning",
                msg |-> prefix \o "unsure about page orientation"]>>
    ELSE IF Contains(line, "error") \/ Contains(line, "exception")
        THEN <<[level |-> "error", msg |-> prefix \o Strip(line)]>>
    ELSE IF Contains(Lower(line), "warning")
        THEN <<[level |-> "warning", msg |-> prefix \o Strip(line)]>>
    ELSE IF Contains(Lower(line), "read_params_file")
        THEN <<[level |-> "error", msg |-> prefix \o Strip(line)]>>
    ELSE <<[level |-> "info", msg |-> prefix \o Strip(line)]>>

\* what one iteration of the loop hands to the log: << >> for `continue`,
\* else one entry
LogLine(prefix, line) ==
    IF StartsWith(line, "Tesseract Open Source") THEN << >>
    ELSE IF StartsWith(line, "Warning in pixReadMem") THEN << >>
    ELSE IF Contains(line, "diacritics")
        THEN <<[level |-> "warning",
                msg |-> prefix \o "lots of diacritics - possibly poor OCR"]>>
    ELSE IF StartsWith(line, "OSD: Weak margin")
        THEN <<[level |-> "warning",
                msg |-> prefix \o "unsure about page orientation"]>>
    ELSE IF Contains(Lower(line), "error") \/ Contains(Lower(line), "exception")
        THEN <<[level |-> "error", msg |-> prefix \o Strip(line)]>>
    ELSE IF Contains(Lower(line), "warning")
        THEN <<[level |-> "warning", msg |-> prefix \o Strip(line)]>>
    ELSE IF Contains(Lower(line), "read_params_file")
        THEN <<[level |-> "error", msg |-> prefix \o Strip(line)]>>
    ELSE <<[level |-> "info", msg |-> prefix \o Strip(line)]>>

RECURSIVE LogLines(_, _)
LogLines(prefix, lines) ==
    IF Len(lines) = 0 THEN << >>
    ELSE LogLine(prefix, lines[1]) \o LogLines(prefix, Tail(lines))

\* the entries tesseract_log_output(log, stdout, input_file) appends to the log
tesseract_log_output(stdout, page) ==
    LogLines(LogPrefix(page), SplitLines(stdout))

\* diagnostic lines the engine is seen to print
BannerLine == "Tesseract Open Source OCR Engine v3.04.01 with Leptonica"
PixLine == "Warning in pixReadMemPng: work-around: writing to a temp file"
DiacriticsLine == "Detected 25 diacritics"
DiacriticsErrorLine == "Error: too many diacritics"
WeakMarginLine == "OSD: Weak margin (0.00) for 83 blob text block, but using orientation anyway: 0"
ErrorLine == "Error during processing."
ParamNotFoundLine == "Error: read_params_file: parameter not found"
ParamFileLine == "read_params_file: Can't open txt"
WarningLine == "Warning. Invalid resolution 0 dpi. Using 70 instead."
PlainLine == " Page 1"

LogCatalogue ==
    {BannerLine, PixLine, DiacriticsLine, DiacriticsErrorLine, WeakMarginLine,
     ErrorLine, ParamNotFoundLine, ParamFileLine, WarningLine, PlainLine}

\* all sequences over S of length at most n
SeqsUpTo(S, n) == UNION {[1..k -> S] : k \in 0..n}

\* page numbers page_number(input_file) resolves to
Pages == {1, 12}

\* one call tesseract_log_output(log, stdout, input_file)
LogOutputCall ==
    /\ lpc = "ready"
    /\ log' = log \o tesseract_log_output(lstdout, lpage)
    /\ lpc' = "done"
    /\ UNCHANGED <<envVars, versionVars, pageVars, llines, lstdout, lpage>>

(***************************************************************************)
(* version() and the capability gates                                      *)
(***************************************************************************)

\* engine builds the model installs
Versions == {"3.02.02", "3.04.01", "4.00.00alpha", "4.00.00"}

\* what `tesseract --version` prints (stdout and stderr together)
VersionOutput(v) == "tesseract " \o v \o "\n leptonica-1.74.1"

\* re.match(r'tesseract\s(.+)', versions).group(1): after "tesseract" and one
\* white-space character, everything up to the end of the first line
ParseVersion(versions) ==
    LET rest == SubSeq(versions, 11, Len(versions))
        nl == FindChar(rest, "\n")
    IN IF nl = 0 THEN rest ELSE SubSeq(rest, 1, nl - 1)

\* ord() of the characters version strings are made of
CharOrd(c) ==
    CASE c = "." -> 46
      [] c = "0" -> 48 [] c = "1" -> 49 [] c = "2" -> 50 [] c = "3" -> 51
      [] c = "4" -> 52 [] c = "5" -> 53 [] c = "6" -> 54 [] c = "7" -> 55
      [] c = "8" -> 56 [] c = "9" -> 57
      [] c = "a" -> 97 [] c = "h" -> 104 [] c = "l" -> 108 [] c = "p" -> 112
      [] OTHER -> 122

\* a >= b on Python strings: lexicographic on the characters
RECURSIVE StrGE(_, _)
StrGE(a, b) ==
    IF Len(b) = 0 THEN TRUE
    ELSE IF Len(a) = 0 THEN FALSE
    ELSE LET x == CharOrd(SubSeq(a, 1, 1))
             y == CharOrd(SubSeq(b, 1, 1))
         IN IF x # y THEN x > y ELSE StrGE(Tail(a), Tail(b))

\* a call of version() looks the cache up; a miss starts the subprocess.
\* functools.lru_cache holds no lock while the wrapped function runs.
VersionCall(t) ==
    /\ tpc[t] # "running"
    /\ calls < MaxCalls
    /\ calls' = calls + 1
    /\ IF cache # ""
       THEN /\ tpc' = [tpc EXCEPT ![t] = "got"]
            /\ tret' = [tret EXCEPT ![t] = cache]
            /\ runs' = runs
       ELSE /\ tpc' = [tpc EXCEPT ![t] = "running"]
            /\ runs' = runs + 1
            /\ tret' = tret
    /\ UNCHANGED <<cache, envVars, log, logVars, pageVars>>

\* check_output returns: the result is parsed, stored in the cache and
\* returned; CalledProcessError becomes MissingDependencyError, which
\* lru_cache does not store
VersionReturn(t) ==
    /\ tpc[t] = "running"
    /\ IF engine = ""
       THEN /\ tpc' = [tpc EXCEPT ![t] = "raised"]
            /\ UNCHANGED <<cache, tret>>
       ELSE LET tesseract_version == ParseVersion(VersionOutput(engine)) IN
            /\ cache' = tesseract_version
            /\ tret' = [tret EXCEPT ![t] = tesseract_version]
            /\ tpc' = [tpc EXCEPT ![t] = "got"]
    /\ UNCHANGED <<runs, calls, envVars, log, logVars, pageVars>>

\* v4(): version() >= '4', a comparison of strings
v4(version) == StrGE(version, "4")

\* has_textonly_pdf(): the 4.00.00alpha build is probed through its parameter
\* list (and the function falls off its end, returning None, when the marker
\* is missing); every other build is judged by v4()
has_textonly_pdf(version, params) ==
    IF version = "4.00.00alpha"
    THEN Contains(params, "textonly_pdf")
    ELSE v4(version)

\* psm()
psm(version) == IF v4(version) THEN "--psm" ELSE "-psm"

\* Python's None, for engine_mode and pagesegmode
None == -1

\* '+'.join(languages)
RECURSIVE JoinPlus(_)
JoinPlus(ls) ==
    IF Len(ls) = 0 THEN ""
    ELSE IF Len(ls) = 1 THEN ls[1]
    ELSE ls[1] \o "+" \o JoinPlus(Tail(ls))

\* tess_base_args(languages, engine_mode)
tess_base_args(languages, engine_mode, version) ==
    <<"tesseract">>
    \o (IF Len(languages) > 0 THEN <<"-l", JoinPlus(languages)>> ELSE << >>)
    \o (IF engine_mode # None /\ v4(version)
        THEN <<"--oem", NatStr(engine_mode)>> ELSE << >>)

\* the value of version() inside a page invocation and the cache after it
VersionNow == IF cache # "" THEN cache ELSE ParseVersion(VersionOutput(engine))

DigitVal(c) ==
    CASE c = "0" -> 0 [] c = "1" -> 1 [] c = "2" -> 2 [] c = "3" -> 3
      [] c = "4" -> 4 [] c = "5" -> 5 [] c = "6" -> 6 [] c = "7" -> 7
      [] c = "8" -> 8 [] c = "9" -> 9

\* int(s) for a string of digits
RECURSIVE ParseInt(_)
ParseInt(s) ==
    IF Len(s) = 0 THEN 0
    ELSE 10 * ParseInt(SubSeq(s, 1, Len(s) - 1)) + DigitVal(SubSeq(s, Len(s), Len(s)))

\* float(s) for digits with two decimals, in hundredths
ParseFloat(s) ==
    LET d == FindChar(s, ".") IN
    IF d = 0 THEN 100 * ParseInt(s)
    ELSE 100 * ParseInt(SubSeq(s, 1, d - 1)) + ParseInt(SubSeq(s, d + 1, d + 2))

(***************************************************************************)
(* Files                                                                   *)
(***************************************************************************)

\* index of the last occurrence of the one-character string c in s, 0 if none
RFindChar(s, c) ==
    IF \E i \in 1..Len(s) : SubSeq(s, i, i) = c
    THEN CHOOSE i \in 1..Len(s) :
            /\ SubSeq(s, i, i) = c
            /\ \A j \in (i + 1)..Len(s) : SubSeq(s, j, j) # c
    ELSE 0

\* os.path.splitext(path)[0] for a path without directories
SplitExtRoot(path) ==
    LET d == RFindChar(path, ".") IN
    IF d <= 1 THEN path ELSE SubSeq(path, 1, d - 1)

\* the paths of one page, as the pipeline names them
InputFile == "000001.png"
OutputHocr == "000001.hocr"
OutputPdf == "000001.pdf"
SkipPdf == "000001.skip.pdf"

\* page_number(input_file) of ..helpers: the number a page's file name begins with
page_number(input_file) == ParseInt(SubSeq(input_file, 1, 6))

\* badxml = os.path.splitext(output_hocr)[0] + '.badxml'
Badxml(output_hocr) == SplitExtRoot(output_hocr) \o ".badxml"

Paths == {OutputHocr, Badxml(OutputHocr), Badxml(OutputHocr) \o ".html",
          Badxml(OutputHocr) \o ".hocr", OutputPdf, SkipPdf}

\* a path with no file
Absent ==
    [kind |-> "absent", whole |-> FALSE, fresh |-> FALSE, title |-> "",
     body |-> "", text |-> "", w |-> 0, h |-> 0, raster |-> FALSE,
     target |-> ""]

\* a geometry document: `title` is the title attribute of its ocr_page
\* element, `body` the title of the elements inside, `text` its words.
\* whole: written to its end; fresh: written during the current call
HocrFile(title, body, text, whole, fresh) ==
    [Absent EXCEPT !.kind = "hocr", !.title = title, !.body = body,
                   !.text = text, !.whole = whole, !.fresh = fresh]

\* a one-page PDF: media box w x h, with or without a raster image
PdfFile(w, h, raster, text, whole, fresh) ==
    [Absent EXCEPT !.kind = "pdf", !.w = w, !.h = h, !.raster = raster,
                   !.text = text, !.whole = whole, !.fresh = fresh]

\* a symbolic link to `target`
SymlinkFile(target) ==
    [Absent EXCEPT !.kind = "symlink", !.target = target, !.whole = TRUE,
                   !.fresh = TRUE]

Exists(f, path) == f[path].kind # "absent"

\* HOCR_TEMPLATE.format(w, h): the ocr_page title and the title shared by the
\* area, paragraph, line and word inside it; the one word is a blank
HOCR_TEMPLATE(w, h) ==
    HocrFile("image \"x.tif\"; bbox 0 0 " \o NatStr(w) \o " " \o NatStr(h)
                \o "; ppageno 0",
             "bbox 0 1 " \o NatStr(w) \o " " \o NatStr(h),
             " ", TRUE, TRUE)

\* _generate_null_hocr with the image's height and width exchanged
_generate_null_hocr_swapped(f, output_hocr, image) ==
    [f EXCEPT ![output_hocr] = HOCR_TEMPLATE(image.h, image.w)]

\* _generate_null_hocr(output_hocr, image): the files after it
_generate_null_hocr(f, output_hocr, image) ==
    [f EXCEPT ![output_hocr] = HOCR_TEMPLATE(image.w, image.h)]

\* the document the engine writes for image `image` read from `input_file`
EngineHocr(input_file, image, whole) ==
    HocrFile("image \"" \o input_file \o "\"; bbox 0 0 " \o NatStr(image.w)
                \o " " \o NatStr(image.h) \o "; ppageno 0",
             "bbox 36 92 580 122", "Lorem ipsum", whole, TRUE)

\* regex_nested_single_quotes.sub on the line holding the ocr_page title:
\* title='image "([^"]*)";  becomes  title='image " ";
RewriteTitle(title) ==
    IF StartsWith(title, "image \"")
    THEN LET rest == SubSeq(title, 8, Len(title))
             q == FindChar(rest, "\"")
         IN IF q > 0 /\ SubSeq(rest, q + 1, q + 1) = ";"
            THEN "image \" \"" \o SubSeq(rest, q + 1, Len(rest))
            ELSE title
    ELSE title

\* use_skip_page(text_only, skip_pdf, output_pdf): the files after it and the
\* exception it raises. os.symlink refuses a path that exists already;
\* open(output_pdf, 'wb') replaces what is there
use_skip_page(f, text_only, skip_pdf, output_pdf) ==
    IF ~text_only
    THEN IF Exists(f, output_pdf)
         THEN [fs |-> f, exc |-> "FileExistsError"]
         ELSE [fs |-> [f EXCEPT ![output_pdf] = SymlinkFile(skip_pdf)],
               exc |-> ""]
    ELSE LET page0 == f[skip_pdf] IN
         [fs |-> [f EXCEPT ![output_pdf] =
                     PdfFile(page0.w, page0.h, FALSE, "", TRUE, TRUE)],
          exc |-> ""]

(***************************************************************************)
(* The orientation report                                                  *)
(***************************************************************************)

\* str.split(':', maxsplit=2): at most three parts
SplitColon(line) ==
    LET i == FindChar(line, ":") IN
    IF i = 0 THEN <<line>>
    ELSE LET rest == SubSeq(line, i + 1, Len(line))
             j == FindChar(rest, ":")
         IN IF j = 0 THEN <<SubSeq(line, 1, i - 1), rest>>
            ELSE <<SubSeq(line, 1, i - 1), SubSeq(rest, 1, j - 1),
                   SubSeq(rest, j + 1, Len(rest))>>

\* the dict osd as the sequence of its assignments, in order
RECURSIVE OsdItems(_)
OsdItems(lines) ==
    IF Len(lines) = 0 THEN << >>
    ELSE LET parts == SplitColon(Strip(lines[1])) IN
         (IF Len(parts) = 2
          THEN <<[key |-> Strip(parts[1]), value |-> Strip(parts[2])]>>
          ELSE << >>) \o OsdItems(Tail(lines))

\* key in osd
OsdHas(osd, key) == \E i \in 1..Len(osd) : osd[i].key = key

\* osd.get(key, default): the last assignment to the key
OsdGet(osd, key, default) ==
    IF OsdHas(osd, key)
    THEN osd[CHOOSE i \in 1..Len(osd) :
                /\ osd[i].key = key
                /\ \A j \in (i + 1)..Len(osd) : osd[j].key # key].value
    ELSE default

\* get_orientation_parse keeping the counter-clockwise angle of the older schema
get_orientation_parse_no_negate(stdout) ==
    LET osd == OsdItems(SplitLines(stdout))
        angle == ParseInt(OsdGet(osd, "Orientation in degrees", "0"))
        confidence == ParseFloat(OsdGet(osd, "Orientation confidence", "0"))
    IN IF OsdHas(osd, "Orientation")
       THEN IF OsdHas(osd, "Rotate")
            THEN [exc |-> "AssertionError", angle |-> 0, confidence |-> 0]
            ELSE [exc |-> "", angle |-> angle, confidence |-> confidence]
       ELSE IF ~OsdHas(osd, "Rotate")
            THEN [exc |-> "AssertionError", angle |-> 0, confidence |-> 0]
            ELSE [exc |-> "", angle |-> angle, confidence |-> confidence]

\* get_orientation_parse without the assertion of its else branch
get_orientation_parse_no_assert(stdout) ==
    LET osd == OsdItems(SplitLines(stdout))
        angle == ParseInt(OsdGet(osd, "Orientation in degrees", "0"))
        confidence == ParseFloat(OsdGet(osd, "Orientation confidence", "0"))
    IN IF OsdHas(osd, "Orientation")
       THEN IF OsdHas(osd, "Rotate")
            THEN [exc |-> "AssertionError", angle |-> 0, confidence |-> 0]
            ELSE [exc |-> "", angle |-> (-angle) % 360, confidence |-> confidence]
       ELSE [exc |-> "", angle |-> angle, confidence |-> confidence]

\* the else branch of get_orientation: the result, or the failed assertion
get_orientation_parse(stdout) ==
    LET osd == OsdItems(SplitLines(stdout))
        angle == ParseInt(OsdGet(osd, "Orientation in degrees", "0"))
        confidence == ParseFloat(OsdGet(osd, "Orientation confidence", "0"))
    IN IF OsdHas(osd, "Orientation")
       THEN IF OsdHas(osd, "Rotate")
            THEN [exc |-> "AssertionError", angle |-> 0, confidence |-> 0]
            ELSE [exc |-> "", angle |-> (-angle) % 360, confidence |-> confidence]
       ELSE IF ~OsdHas(osd, "Rotate")
            THEN [exc |-> "AssertionError", angle |-> 0, confidence |-> 0]
            ELSE [exc |-> "", angle |-> angle, confidence |-> confidence]

PageOff ==
    /\ pc = "off"
    /\ op = ""
    /\ inv = << >>
    /\ args = << >>
    /\ outcome = ""
    /\ report = << >>
    /\ eout = ""
    /\ fs = [p \in Paths |-> Absent]
    /\ fsExit = [p \in Paths |-> Absent]
    /\ exc = ""
    /\ result = << >>

(***************************************************************************)
(* One page invocation                                                     *)
(***************************************************************************)

ImageTooLargeLine == "Error: Image too large: (40000, 40000)"
TooFewLine == "Too few characters. Skipping this page"

\* what an engine that exits non-zero is seen to print
FailCatalogue == {ImageTooLargeLine, ParamNotFoundLine, TooFewLine, ErrorLine}
FailOutputs == {JoinLines(ls) : ls \in SeqsUpTo(FailCatalogue, MaxOutLines)}

\* what an engine that exits zero prints besides its result
OkOutputs ==
    {BannerLine, BannerLine \o "\n" \o DiacriticsLine,
     "read_params_file: Can't open pdf"}

\* the caller's choice of languages, engine_mode, pagesegmode and tessconfig
Invocations ==
    {[languages |-> <<"eng">>, engine_mode |-> None, pagesegmode |-> None,
      tessconfig |-> << >>],
     [languages |-> <<"eng", "deu">>, engine_mode |-> 1, pagesegmode |-> 3,
      tessconfig |-> <<"bazaar">>]}

\* pixel sizes of the source image; media boxes of the skip page
Images == {[w |-> 640, h |-> 480], [w |-> 2550, h |-> 3300]}
SkipPages == {[w |-> 612, h |-> 792], [w |-> 842, h |-> 595]}

\* orientation reports: the value each line carries, None for a line the
\* engine does not print
Reports ==
    [ori : {None, 1, 90}, deg : {None, 0, 90, 270}, rot : {None, 90},
     conf : BOOLEAN]

\* the text of a report
OsdText(r) ==
    (IF r.ori # None THEN "Orientation: " \o NatStr(r.ori) \o "\n" ELSE "")
    \o (IF r.deg # None
        THEN "Orientation in degrees: " \o NatStr(r.deg) \o "\n" ELSE "")
    \o (IF r.rot # None THEN "Rotate: " \o NatStr(r.rot) \o "\n" ELSE "")
    \o (IF r.conf THEN "Orientation confidence: 15.33\n" ELSE "")
    \o "Script: 1\nScript confidence: 2.50\n"

\* an old file a previous run left at a path
StaleHocr == HocrFile("image \" \"; bbox 0 0 10 10; ppageno 0", "bbox 1 1 9 9",
                      "old", TRUE, FALSE)
StalePdf == PdfFile(10, 10, TRUE, "old", TRUE, FALSE)

\* page_timedout(log, input_file)
page_timedout(page) ==
    <<[level |-> "warning",
       msg |-> LogPrefix(page) \o " took too long to OCR - skipping"]>>

\* the calls of version() made while the command line is built, and the
\* lru_cache after them (one thread: a miss fills the cache before the next)
UseVersion(k) ==
    /\ calls' = calls + k
    /\ cache' = IF k > 0 THEN VersionNow ELSE cache
    /\ runs' = IF k > 0 /\ cache = "" THEN runs + 1 ELSE runs
    /\ UNCHANGED <<tpc, tret>>

\* [psm(), str(pagesegmode)] when a page segmentation mode is given
PsmArgs(i, version) ==
    IF i.pagesegmode # None
    THEN <<psm(version), NatStr(i.pagesegmode)>> ELSE << >>

VersionCalls(i) ==
    (IF i.engine_mode # None THEN 1 ELSE 0) + (IF i.pagesegmode # None THEN 1 ELSE 0)

\* get_orientation up to its check_output
get_orientation_call ==
    \E i \in Invocations :
        /\ pc = "idle"
        /\ op' = "get_orientation"
        /\ inv' = [languages |-> i.languages, engine_mode |-> i.engine_mode,
                   pagesegmode |-> None, tessconfig |-> << >>,
                   text_only |-> FALSE, page |-> page_number(InputFile),
                   image |-> CHOOSE x \in Images : x.w = 640,
                   input_file |-> InputFile]
        /\ args' = tess_base_args(i.languages, i.engine_mode, VersionNow)
                   \o <<psm(VersionNow), "0", InputFile, "stdout">>
        /\ UseVersion((IF i.engine_mode # None THEN 1 ELSE 0) + 1)
        /\ pc' = "engine"
        /\ UNCHANGED <<envVars, log, logVars, outcome, report, eout, fs, fsExit,
                       exc, result>>

\* generate_hocr up to its check_output
generate_hocr_call ==
    \E i \in Invocations, image \in Images,
       stale_out \in BOOLEAN, stale_badxml \in BOOLEAN :
        /\ pc = "idle"
        /\ op' = "generate_hocr"
        /\ inv' = [languages |-> i.languages, engine_mode |-> i.engine_mode,
                   pagesegmode |-> i.pagesegmode, tessconfig |-> i.tessconfig,
                   text_only |-> FALSE, page |-> page_number(InputFile), image |-> image,
                   input_file |-> InputFile]
        /\ args' = tess_base_args(i.languages, i.engine_mode, VersionNow)
                   \o PsmArgs(i, VersionNow)
                   \o <<InputFile, Badxml(OutputHocr), "hocr">> \o i.tessconfig
        /\ UseVersion(VersionCalls(i))
        /\ fs' = [fs EXCEPT
                    ![OutputHocr] = IF stale_out THEN StaleHocr ELSE Absent,
                    ![Badxml(OutputHocr)] =
                        IF stale_badxml THEN StaleHocr ELSE Absent]
        /\ log' = log \o <<[level |-> "debug", msg |-> "args_tesseract"]>>
        /\ pc' = "engine"
        /\ UNCHANGED <<envVars, logVars, outcome, report, eout, fsExit, exc,
                       result>>

\* generate_pdf up to its check_output. The cleanup filter's exit status is
\* not looked at: os.rename raises when the filter left no file
generate_pdf_call ==
    \E i \in Invocations, skip \in SkipPages,
       text_only \in BOOLEAN, stale_out \in BOOLEAN, cleaned \in BOOLEAN :
        /\ pc = "idle"
        /\ op' = "generate_pdf"
        /\ inv' = [languages |-> i.languages, engine_mode |-> i.engine_mode,
                   pagesegmode |-> i.pagesegmode, tessconfig |-> i.tessconfig,
                   text_only |-> text_only, page |-> page_number(InputFile),
                   image |-> CHOOSE x \in Images : x.w = 2550,
                   input_file |-> InputFile]
        /\ args' = tess_base_args(i.languages, i.engine_mode, VersionNow)
                   \o PsmArgs(i, VersionNow)
                   \o (IF text_only THEN <<"-c", "textonly_pdf=1">> ELSE << >>)
                   \o (IF cleaned
                       THEN <<InputFile, SplitExtRoot(OutputPdf), "pdf">>
                            \o i.tessconfig
                       ELSE << >>)
        /\ UseVersion(VersionCalls(i))
        /\ fs' = [fs EXCEPT
                    ![OutputPdf] = IF stale_out THEN StalePdf ELSE Absent,
                    ![SkipPdf] = PdfFile(skip.w, skip.h, TRUE, "", TRUE, FALSE)]
        /\ log' = log
                  \o <<[level |-> "info", msg |-> "Textcleaning " \o InputFile]>>
                  \o (IF cleaned
                      THEN <<[level |-> "debug", msg |-> "args_tesseract"]>>
                      ELSE << >>)
        /\ pc' = IF cleaned THEN "engine" ELSE "raised"
        /\ exc' = IF cleaned THEN "" ELSE "FileNotFoundError"
        /\ UNCHANGED <<envVars, logVars, outcome, report, eout, fsExit, result>>

\* whether the command line carries the text-only render flag
HasTextOnlyFlag(a) ==
    \E k \in 1..(Len(a) - 1) : a[k] = "-c" /\ a[k + 1] = "textonly_pdf=1"

\* where an engine that exits zero left its result: under one of the names
\* the caller looks at, or not there
HocrPlaces ==
    {Badxml(OutputHocr) \o ".html", Badxml(OutputHocr) \o ".hocr",
     Badxml(OutputHocr), "elsewhere"}
PdfPlaces == {SplitExtRoot(OutputPdf) \o ".pdf", "elsewhere"}

\* f with content c written at place, unless the place is outside the call's files
Put(f, place, c) == IF place \in Paths THEN [f EXCEPT ![place] = c] ELSE f

\* check_output returns: the engine exited zero
EngineOk ==
    /\ pc = "engine"
    /\ outcome' = "ok"
    /\ \/ /\ op = "get_orientation"
          /\ \E r \in Reports : report' = r /\ eout' = OsdText(r)
          /\ fs' = fs
       \/ /\ op = "generate_hocr"
          /\ \E place \in HocrPlaces, out \in OkOutputs :
                /\ eout' = out
                /\ fs' = Put(fs, place,
                             EngineHocr(inv.input_file, inv.image, TRUE))
          /\ report' = report
       \/ /\ op = "generate_pdf"
          /\ \E place \in PdfPlaces, out \in OkOutputs :
                /\ eout' = out
                /\ fs' = Put(fs, place,
                             PdfFile(inv.image.w, inv.image.h,
                                     ~(HasTextOnlyFlag(args)
                                       /\ has_textonly_pdf(engine, engineParams)),
                                     "Lorem ipsum", TRUE, TRUE))
          /\ report' = report
    /\ fsExit' = fs'
    /\ pc' = "succeeded"
    /\ UNCHANGED <<envVars, versionVars, log, logVars, op, inv, args, exc, result>>

\* check_output raises TimeoutExpired: the engine was killed, and may have
\* begun its output file
EngineTimeout ==
    /\ pc = "engine"
    /\ outcome' = "timeout"
    /\ eout' = ""
    /\ \/ /\ op = "get_orientation"
          /\ fs' = fs
       \/ /\ op = "generate_hocr"
          /\ \E place \in HocrPlaces :
                fs' = Put(fs, place, EngineHocr(inv.input_file, inv.image, FALSE))
       \/ /\ op = "generate_pdf"
          /\ \E place \in PdfPlaces :
                fs' = Put(fs, place,
                          PdfFile(inv.image.w, inv.image.h, TRUE, "", FALSE, TRUE))
    /\ fsExit' = fs'
    /\ pc' = "timeout"
    /\ UNCHANGED <<envVars, versionVars, log, logVars, op, inv, args, report,
                   exc, result>>

\* check_output raises CalledProcessError: the engine exited non-zero, and
\* may have begun its output file
EngineFail ==
    /\ pc = "engine"
    /\ outcome' = "fail"
    /\ \E out \in FailOutputs : eout' = out
    /\ \/ /\ op = "get_orientation"
          /\ fs' = fs
       \/ /\ op = "generate_hocr"
          /\ \E place \in {Badxml(OutputHocr) \o ".hocr", "elsewhere"} :
                fs' = Put(fs, place, EngineHocr(inv.input_file, inv.image, FALSE))
       \/ /\ op = "generate_pdf"
          /\ \E place \in PdfPlaces :
                fs' = Put(fs, place,
                          PdfFile(inv.image.w, inv.image.h, TRUE, "", FALSE, TRUE))
    /\ fsExit' = fs'
    /\ pc' = "failed"
    /\ UNCHANGED <<envVars, versionVars, log, logVars, op, inv, args, report,
                   exc, result>>

\* OrientationConfidence(angle, confidence), the confidence in hundredths
OrientationConfidence(angle, confidence) ==
    [angle |-> angle, confidence |-> confidence]

\* the except TimeoutExpired branches
OnTimeout ==
    /\ pc = "timeout"
    /\ \/ /\ op = "get_orientation"
          /\ result' = OrientationConfidence(0, 0)
          /\ pc' = "returned"
          /\ UNCHANGED <<log, fs, exc>>
       \/ /\ op = "generate_hocr"
          /\ log' = log \o page_timedout(inv.page)
          /\ fs' = _generate_null_hocr(fs, OutputHocr, inv.image)
          /\ pc' = "returned"
          /\ UNCHANGED <<exc, result>>
       \/ /\ op = "generate_pdf"
          /\ log' = log \o page_timedout(inv.page)
          /\ LET r == use_skip_page(fs, inv.text_only, SkipPdf, OutputPdf) IN
                /\ fs' = r.fs
                /\ exc' = r.exc
                /\ pc' = IF r.exc = "" THEN "returned" ELSE "raised"
          /\ result' = result
    /\ UNCHANGED <<envVars, versionVars, logVars, op, inv, args, outcome,
                   report, eout, fsExit>>

\* the except branch testing for the configuration error before it logs
LogOnFailure_after_config_test(output, page) ==
    IF Contains(output, "read_params_file: parameter not found")
    THEN << >>
    ELSE tesseract_log_output(output, page)

\* what the except CalledProcessError branches hand to the log first
LogOnFailure(output, page) == tesseract_log_output(output, page)

\* the first statement of the except CalledProcessError branches
LogFailure ==
    /\ pc = "failed"
    /\ log' = log \o LogOnFailure(eout, inv.page)
    /\ pc' = "logged"
    /\ UNCHANGED <<envVars, versionVars, logVars, op, inv, args, outcome,
                   report, eout, fs, fsExit, exc, result>>

\* how each except CalledProcessError branch sorts e.output:
\* "config" (TesseractConfigError), "fallback" (a substitute result) or
\* "raise" (the engine's failure goes on to the caller)
get_orientation_failure(output) ==
    IF Contains(output, "Too few characters. Skipping this page")
       \/ Contains(output, "Image too large")
    THEN "fallback" ELSE "raise"

generate_hocr_failure(output) ==
    IF Contains(output, "read_params_file: parameter not found") THEN "config"
    ELSE IF Contains(output, "Image too large") THEN "fallback"
    ELSE "raise"

\* generate_pdf_failure with its two tests in the other order
generate_pdf_failure_too_large_first(output) ==
    IF Contains(output, "Image too large") THEN "fallback"
    ELSE IF Contains(output, "read_params_file: parameter not found") THEN "config"
    ELSE "raise"

generate_pdf_failure(output) ==
    IF Contains(output, "read_params_file: parameter not found") THEN "config"
    ELSE IF Contains(output, "Image too large") THEN "fallback"
    ELSE "raise"

\* the rest of the except CalledProcessError branches
OnFailure ==
    /\ pc = "logged"
    /\ \/ /\ op = "get_orientation"
          /\ IF get_orientation_failure(eout) = "fallback"
             THEN /\ result' = OrientationConfidence(0, 0)
                  /\ pc' = "returned"
                  /\ exc' = exc
             ELSE /\ exc' = "CalledProcessError"
                  /\ pc' = "raised"
                  /\ result' = result
          /\ fs' = fs
       \/ /\ op = "generate_hocr"
          /\ LET how == generate_hocr_failure(eout) IN
                /\ exc' = (CASE how = "config" -> "TesseractConfigError"
                             [] how = "fallback" -> ""
                             [] OTHER -> "CalledProcessError")
                /\ fs' = IF how = "fallback"
                         THEN _generate_null_hocr(fs, OutputHocr, inv.image)
                         ELSE fs
                /\ pc' = IF how = "fallback" THEN "returned" ELSE "raised"
          /\ result' = result
       \/ /\ op = "generate_pdf"
          /\ LET how == generate_pdf_failure(eout)
                 r == use_skip_page(fs, inv.text_only, SkipPdf, OutputPdf)
             IN /\ exc' = (CASE how = "config" -> "TesseractConfigError"
                             [] how = "fallback" -> r.exc
                             [] OTHER -> "CalledProcessError")
                /\ fs' = IF how = "fallback" THEN r.fs ELSE fs
                /\ pc' = IF how = "fallback" /\ r.exc = ""
                         THEN "returned" ELSE "raised"
          /\ result' = result
    /\ UNCHANGED <<envVars, versionVars, log, logVars, op, inv, args, outcome,
                   report, eout, fsExit>>

\* the else branch of generate_hocr after its tesseract_log_output: the
\* engine's file is moved to badxml from either suffix, then copied line by
\* line to output_hocr; open(badxml) raises when there is no such file
generate_hocr_success(f, output_hocr) ==
    LET badxml == Badxml(output_hocr)
        moved ==
            IF Exists(f, badxml \o ".html")
            THEN [f EXCEPT ![badxml] = f[badxml \o ".html"],
                           ![badxml \o ".html"] = Absent]
            ELSE IF Exists(f, badxml \o ".hocr")
            THEN [f EXCEPT ![badxml] = f[badxml \o ".hocr"],
                           ![badxml \o ".hocr"] = Absent]
            ELSE f
    IN IF ~Exists(moved, badxml)
       THEN [fs |-> moved, exc |-> "FileNotFoundError"]
       ELSE [fs |-> [moved EXCEPT ![output_hocr] =
                        [moved[badxml] EXCEPT
                            !.title = RewriteTitle(moved[badxml].title),
                            !.fresh = TRUE]],
             exc |-> ""]

\* the else branches: the engine exited zero
OnSuccess ==
    /\ pc = "succeeded"
    /\ \/ /\ op = "get_orientation"
          /\ LET r == get_orientation_parse(eout) IN
                /\ exc' = r.exc
                /\ result' = IF r.exc = ""
                             THEN OrientationConfidence(r.angle, r.confidence)
                             ELSE result
                /\ pc' = IF r.exc = "" THEN "returned" ELSE "raised"
          /\ UNCHANGED <<log, fs>>
       \/ /\ op = "generate_hocr"
          /\ log' = log \o tesseract_log_output(eout, inv.page)
          /\ LET r == generate_hocr_success(fs, OutputHocr) IN
                /\ fs' = r.fs
                /\ exc' = r.exc
                /\ pc' = IF r.exc = "" THEN "returned" ELSE "raised"
          /\ result' = result
       \/ /\ op = "generate_pdf"
          /\ log' = log \o tesseract_log_output(eout, inv.page)
          /\ pc' = "returned"
          /\ UNCHANGED <<fs, exc, result>>
    /\ UNCHANGED <<envVars, versionVars, logVars, op, inv, args, outcome,
                   report, eout, fsExit>>

ParamsWith == "textord_debug_nontext\t0\ntextonly_pdf\t0\tCreate PDF with only one invisible text layer"
ParamsWithout == "textord_debug_nontext\t0\ntextord_tabfind_show_vlines\t0"

InitVersion ==
    /\ engine \in Versions \cup {""}
    /\ engineParams \in {ParamsWith, ParamsWithout}
    /\ cache = ""
    /\ tpc = [t \in Threads |-> "idle"]
    /\ tret = [t \in Threads |-> ""]
    /\ runs = 0
    /\ calls = 0
    /\ log = << >>
    /\ llines = << >>
    /\ lstdout = ""
    /\ lpage = 0
    /\ lpc = "off"
    /\ PageOff

NextVersion == \E t \in Threads : VersionCall(t) \/ VersionReturn(t)

SpecVersion == InitVersion /\ [][NextVersion]_vars

(***************************************************************************)
(* tesseract_log_output on its own: every text of at most MaxLines lines   *)
(***************************************************************************)

InitLog ==
    /\ engine = "3.04.01"
    /\ engineParams = ParamsWithout
    /\ cache = ""
    /\ tpc = [t \in Threads |-> "idle"]
    /\ tret = [t \in Threads |-> ""]
    /\ runs = 0
    /\ calls = 0
    /\ log = << >>
    /\ llines \in SeqsUpTo(LogCatalogue, MaxLines)
    /\ lstdout = JoinLines(llines)
    /\ lpage \in Pages
    /\ lpc = "ready"
    /\ PageOff

NextLog == LogOutputCall

SpecLog == InitLog /\ [][NextLog]_vars

(***************************************************************************)
(* One page invocation on an installed engine                              *)
(***************************************************************************)

InitPage ==
    /\ engine \in Versions
    /\ engineParams \in
          IF engine = "4.00.00alpha" THEN {ParamsWith, ParamsWithout}
          ELSE IF v4(engine) THEN {ParamsWith} ELSE {ParamsWithout}
    /\ cache = ""
    /\ tpc = [t \in Threads |-> "idle"]
    /\ tret = [t \in Threads |-> ""]
    /\ runs = 0
    /\ calls = 0
    /\ log = << >>
    /\ llines = << >>
    /\ lstdout = ""
    /\ lpage = 0
    /\ lpc = "off"
    /\ pc = "idle"
    /\ op = ""
    /\ inv = << >>
    /\ args = << >>
    /\ outcome = ""
    /\ report = << >>
    /\ eout = ""
    /\ fs = [p \in Paths |-> Absent]
    /\ fsExit = [p \in Paths |-> Absent]
    /\ exc = ""
    /\ result = << >>

NextPage ==
    \/ get_orientation_call
    \/ generate_hocr_call
    \/ generate_pdf_call
    \/ EngineOk
    \/ EngineTimeout
    \/ EngineFail
    \/ OnTimeout
    \/ LogFailure
    \/ OnFailure
    \/ OnSuccess

SpecPage == InitPage /\ [][NextPage]_vars

(***************************************************************************)
(* Properties                                                              *)
(***************************************************************************)

\* whether sequence a ends with sequence b
EndsWith(a, b) ==
    Len(a) >= Len(b) /\ SubSeq(a, Len(a) - Len(b) + 1, Len(a)) = b

\* whether a page invocation has ended, by return or by exception
Ended == pc \in {"returned", "raised"}

\* C1: when the engine answers the version query, the query subprocess is
\* run exactly once however many threads call version() and however their
\* calls interleave, and every caller gets the same value.
C1_VersionQueriedExactlyOnce ==
    engine # "" =>
        /\ runs <= 1
        /\ (\E t \in Threads : tpc[t] = "got") => runs = 1
        /\ \A t, u \in Threads :
              tpc[t] = "got" /\ tpc[u] = "got" => tret[t] = tret[u]

\* C2: whenever generate_hocr or generate_pdf returns without raising, the
\* caller's output path holds a complete artifact written during that call,
\* whatever the engine did.
C2_ReturnedArtifactComplete ==
    (pc = "returned" /\ op \in {"generate_hocr", "generate_pdf"}) =>
        LET out == IF op = "generate_hocr" THEN OutputHocr ELSE OutputPdf IN
        /\ Exists(fs, out)
        /\ fs[out].whole
        /\ fs[out].fresh

\* the ocr_page bounding box of a page as large as the image
PageBBox(image) ==
    CASE image.w = 640 /\ image.h = 480 -> "bbox 0 0 640 480;"
      [] image.w = 2550 /\ image.h = 3300 -> "bbox 0 0 2550 3300;"

\* C3: in generate_hocr, a timeout, or an exit failure with 'Image too large'
\* and without 'read_params_file: parameter not found', ends in a normal
\* return with output_hocr holding the null template: one page, no
\* recognized text, page bounding box 0 0 W H for the W x H source image.
C3_NullHocrOnTimeoutOrTooLarge ==
    (/\ op = "generate_hocr"
     /\ Ended
     /\ \/ outcome = "timeout"
        \/ /\ outcome = "fail"
           /\ Contains(eout, "Image too large")
           /\ ~Contains(eout, "read_params_file: parameter not found"))
    => /\ pc = "returned"
       /\ exc = ""
       /\ fs[OutputHocr].kind = "hocr"
       /\ fs[OutputHocr].whole
       /\ fs[OutputHocr].fresh
       /\ fs[OutputHocr].text = " "
       /\ Contains(fs[OutputHocr].title, PageBBox(inv.image))

C3_Witness ==
    /\ op = "generate_hocr"
    /\ pc = "returned"
    /\ outcome = "fail"
    /\ Contains(eout, "Image too large")
    /\ inv.image.w = 2550
    /\ fsExit[OutputHocr].kind = "hocr"
    /\ Contains(fs[OutputHocr].title, "bbox 0 0 2550 3300;")

\* C4: in generate_pdf, a timeout or an exit failure with 'Image too large'
\* ends in a normal return; with text_only false output_pdf is a link to
\* skip_pdf, with text_only true it is a new blank page of the size of
\* skip_pdf's first page, and skip_pdf is unchanged.
C4_SkipPageOnTimeoutOrTooLarge ==
    (/\ op = "generate_pdf"
     /\ Ended
     /\ \/ outcome = "timeout"
        \/ outcome = "fail" /\ Contains(eout, "Image too large"))
    => /\ pc = "returned"
       /\ ~inv.text_only => fs[OutputPdf] = SymlinkFile(SkipPdf)
       /\ inv.text_only =>
            /\ fs[OutputPdf].kind = "pdf"
            /\ fs[OutputPdf].fresh
            /\ fs[OutputPdf].whole
            /\ ~fs[OutputPdf].raster
            /\ fs[OutputPdf].w = fs[SkipPdf].w
            /\ fs[OutputPdf].h = fs[SkipPdf].h
       /\ fs[SkipPdf] = fsExit[SkipPdf]

\* C5 as stated: for a report with key 'Orientation' of value r and no
\* 'Rotate' the angle is (-r) mod 360; for a report with 'Orientation in
\* degrees' of value r and 'Rotate' the angle is r.
C5_AngleFromOrientationKey ==
    (op = "get_orientation" /\ pc = "returned" /\ outcome = "ok") =>
        /\ (report.ori # None /\ report.rot = None)
              => result.angle = (360 - report.ori) % 360
        /\ (report.ori = None /\ report.deg # None /\ report.rot # None)
              => result.angle = report.deg

\* the value a report gives under 'Orientation in degrees', 0 without the line
DegreesOf(r) == IF r.deg = None THEN 0 ELSE r.deg

\* C5 as amended: both schemas read the angle d from 'Orientation in
\* degrees' (0 without that line); with key 'Orientation' and no 'Rotate'
\* the result is (-d) mod 360, whatever value 'Orientation' carries; with
\* 'Rotate' and no 'Orientation' the result is d.
C5_AngleFromDegreesKey ==
    (op = "get_orientation" /\ pc = "returned" /\ outcome = "ok") =>
        /\ (report.ori # None /\ report.rot = None)
              => result.angle = (360 - DegreesOf(report)) % 360
        /\ (report.ori = None /\ report.rot # None)
              => result.angle = DegreesOf(report)
        /\ (report.ori = 90 /\ report.deg = None) => result.angle = 0
        /\ (report.ori = 1 /\ report.deg = 90) => result.angle = 270

C5_Witness ==
    /\ op = "get_orientation"
    /\ pc = "returned"
    /\ outcome = "ok"
    /\ report.ori = 1
    /\ report.deg = 90
    /\ report.rot = None
    /\ result.angle = 270

\* C6: a successful report with both 'Orientation' and 'Rotate', or with
\* neither, never yields a result: the call fails on its assertion.
C6_MixedSchemaRejected ==
    (/\ op = "get_orientation"
     /\ outcome = "ok"
     /\ Ended
     /\ (report.ori # None) <=> (report.rot # None))
    => /\ pc = "raised"
       /\ exc = "AssertionError"
       /\ result = << >>

C6_Witness ==
    /\ op = "get_orientation"
    /\ pc = "raised"
    /\ exc = "AssertionError"
    /\ report.ori = None
    /\ report.rot = None
    /\ report.deg = 90

\* C7: the engine is invoked with '-c textonly_pdf=1' if and only if the
\* caller asks for text_only and has_textonly_pdf() is true.
C7_TextOnlyFlagGated ==
    (op = "generate_pdf" /\ outcome # "") =>
        (HasTextOnlyFlag(args)
            <=> (inv.text_only /\ has_textonly_pdf(engine, engineParams)))

\* C8: when the engine exits non-zero, the step that raises or returns the
\* fallback is taken with every line of the engine's output already passed
\* through tesseract_log_output.
C8_LoggedBeforeRaise ==
    [][(outcome = "fail" /\ ~Ended /\ Ended')
          => EndsWith(log, tesseract_log_output(eout, inv.page))]_vars

C8_Witness ==
    /\ outcome = "fail"
    /\ pc = "raised"
    /\ exc = "TesseractConfigError"
    /\ eout = ImageTooLargeLine \o "\n" \o ParamNotFoundLine
    /\ Len(log) >= 2
    /\ log[Len(log)].level = "error"
    /\ log[Len(log) - 1].level = "error"

\* the rule of the table each sample line falls under, and the text logged
TableLevel(line) ==
    CASE line = BannerLine -> "dropped"
      [] line = PixLine -> "dropped"
      [] line = DiacriticsLine -> "warning"
      [] line = DiacriticsErrorLine -> "warning"
      [] line = WeakMarginLine -> "warning"
      [] line = ErrorLine -> "error"
      [] line = ParamNotFoundLine -> "error"
      [] line = ParamFileLine -> "error"
      [] line = WarningLine -> "warning"
      [] line = PlainLine -> "info"

TableText(line) ==
    CASE line = DiacriticsLine -> "] lots of diacritics - possibly poor OCR"
      [] line = DiacriticsErrorLine -> "] lots of diacritics - possibly poor OCR"
      [] line = WeakMarginLine -> "] unsure about page orientation"
      [] line = PlainLine -> "] Page 1"
      [] OTHER -> "] " \o line

RECURSIVE TableLog(_)
TableLog(lines) ==
    IF Len(lines) = 0 THEN << >>
    ELSE (IF TableLevel(lines[1]) = "dropped" THEN << >>
          ELSE <<[level |-> TableLevel(lines[1]), text |-> TableText(lines[1])]>>)
         \o TableLog(Tail(lines))

\* C9: tesseract_log_output logs the lines in input order, at most one
\* message per line, each by the first rule of the table that matches it.
C9_ClassifiedByTable ==
    lpc = "done" =>
        LET expected == TableLog(llines) IN
        /\ Len(log) <= Len(llines)
        /\ Len(log) = Len(expected)
        /\ \A i \in 1..Len(expected) :
              /\ log[i].level = expected[i].level
              /\ EndsWith(log[i].msg, expected[i].text)

C9_Witness ==
    /\ lpc = "done"
    /\ llines = <<ParamNotFoundLine, PlainLine>>
    /\ Len(log) = 2
    /\ log[1].level = "error"
    /\ log[2].level = "info"

\* C10: in generate_hocr and generate_pdf an exit failure whose output has
\* 'read_params_file: parameter not found' always raises TesseractConfigError,
\* also with 'Image too large' in the same output, and leaves every file as
\* the engine left it.
C10_ParamNotFoundIsConfigError ==
    (/\ op \in {"generate_hocr", "generate_pdf"}
     /\ outcome = "fail"
     /\ Ended
     /\ Contains(eout, "read_params_file: parameter not found"))
    => /\ pc = "raised"
       /\ exc = "TesseractConfigError"
       /\ fs = fsExit

C10_Witness ==
    /\ op = "generate_pdf"
    /\ pc = "raised"
    /\ exc = "TesseractConfigError"
    /\ Contains(eout, "Image too large")
    /\ Contains(eout, "read_params_file: parameter not found")
    /\ ~Exists(fs, OutputPdf)

====
